---- MODULE Spec2Model ----
(***************************************************************************)
(* Model of the literature-to-flowchart applications:                      *)
(*   streamlit_run.py    sequential batch, render with retry, zip archive  *)
(*   streamlit_2.0.py    concurrent batch (asyncio.gather), zip archive    *)
(*   streamlit_cloud.py  extraction only, results shown inline             *)
(*                                                                         *)
(* Text is a sequence of characters (one-character strings).  Indices into *)
(* text are 0-based and -1 means "not found", exactly as Python's          *)
(* str.find; slices are half-open as Python's s[a:b].  The two CJK         *)
(* characters of the summary separator are written "zhai" and "yao" and    *)
(* the backquote character is written "bq".                                *)
(* Python's None is the value None below; the empty string is << >>.       *)
(***************************************************************************)
EXTENDS Integers, Sequences, FiniteSets, TLC

VARIABLES
    \* ---- extraction harness (SpecExtract) ----
    raw_text,            \* the completion text handed to the extractor
    translate_abstract,  \* whether a summary was requested (sidebar checkbox)
    extractor,           \* which file's get_mermaid_code_from_text ran
    extracted,           \* the dict it returned
    response,            \* what the HTTP exchange came to: "reply" or a failure
    escaped,             \* whether an exception left the completion client
    displayed,           \* the reply text the extractor put on the page
    \* ---- batch run (Spec) ----
    variant,             \* "run" = streamlit_run.py, "v20" = streamlit_2.0.py
    uploaded_files,      \* the uploader's list of files
    pc,                  \* position of the button handler
    results,             \* st.session_state.results
    zip_buffer,          \* st.session_state.zip_buffer: None or the arcnames
    all_results,         \* run: the handler's local list
    processed_files,     \* run: the handler's progress counter
    item,                \* run: the locals of the item being processed
    retry_count,         \* render_mermaid_to_image: retry_count
    current_mermaid_code,\* render_mermaid_to_image: current_mermaid_code
    original_text,       \* render_mermaid_to_image: original_text is truthy
    render_calls,        \* renderer invocations of the current call
    fs,                  \* paths that exist in the output directory
    empty_files,         \* those of them that have size 0
    task_pc,             \* 2.0: position of each process_file coroutine
    task_result,         \* 2.0: what each process_file returned
    completion_order,    \* 2.0: the order in which the coroutines finished
    process,             \* render_mermaid_to_image: the renderer process
                         \* of the latest attempt
    error_message,       \* render_mermaid_to_image: error_message
    previous_error,      \* the correction hint of the latest completion request
    temp_code,           \* the content of the temporary source file
    reply,               \* the completion text current_mermaid_code came from
    api_key,             \* whether the sidebar holds an API key
    api_calls,           \* completion requests sent for the current item
                         \* (run) or in the current batch (2.0)
    key_errors,          \* missing-key errors reported in the current batch
    \* ---- literature review app (SpecReview, SpecSearch) ----
    run_review,          \* st.session_state.run_review
    tavily_api_key,      \* sidebar: the Tavily key is not empty
    deepseek_api_key,    \* sidebar: the DeepSeek key is not empty
    topic,               \* tab 1: the topic is not empty
    max_results,         \* sidebar slider, search_with_tavily: max_results
    trigger,             \* the interaction that started the script run
    tpc,                 \* position of the script run in main()
    tavily_response,     \* what tavily_client.search came to
    search_results,      \* what search_with_tavily returned
    searches,            \* searches made in the current script run
    llm_requests         \* _call_deepseek calls of the current script run

xvars == <<raw_text, translate_abstract, extractor, extracted, response,
           escaped, displayed>>

bvars == <<variant, uploaded_files, pc, results, zip_buffer, all_results,
           processed_files, item, retry_count, current_mermaid_code,
           original_text, render_calls, fs, empty_files, task_pc,
           task_result, completion_order, process, error_message,
           previous_error, temp_code, reply, api_key, api_calls,
           key_errors>>

\* the locals of render_mermaid_to_image added to the call's position
rvars == <<process, error_message, previous_error, temp_code, reply>>

tvars == <<run_review, tavily_api_key, deepseek_api_key, topic, max_results,
           trigger, tpc, tavily_response, search_results, searches,
           llm_requests>>

vars == <<xvars, bvars, tvars>>

\* ------------------------------------------------------------------------
\* Bounds
\* ------------------------------------------------------------------------
MaxHits == 3        \* a search response holds at most this many results
MaxReviewHits == 1  \* the same, for the searches of the review app's runs
MaxAnswerPieces == 4 \* replies of the interview app have at most this many pieces
MaxPieces == 5      \* raw texts are concatenations of at most this many pieces
MaxFiles  == 2      \* a batch has at most this many uploaded files

\* ------------------------------------------------------------------------
\* Python values and string primitives
\* ------------------------------------------------------------------------
None == <<"None">>

Truthy(v) == v # None /\ v # << >>

Whitespace == {" ", "\n", "\t"}

Min(a, b) == IF a < b THEN a ELSE b

\* s[a:b] for 0 <= a, 0 <= b
Slice(s, a, b) == SubSeq(s, Min(a, Len(s)) + 1, Min(b, Len(s)))

\* s[a:]
SliceFrom(s, a) == Slice(s, a, Len(s))

\* s.startswith(pat)
StartsWith(s, pat) == Len(s) >= Len(pat) /\ SubSeq(s, 1, Len(pat)) = pat

\* s.find(pat, start) for start >= 0
Find(s, pat, start) ==
    LET hits == { i \in start .. (Len(s) - Len(pat)) :
                      SubSeq(s, i + 1, i + Len(pat)) = pat }
    IN  IF hits = {} THEN -1
        ELSE CHOOSE i \in hits : \A j \in hits : i <= j

\* pat in s
Contains(s, pat) == Find(s, pat, 0) # -1

RECURSIVE LStrip(_)
LStrip(s) ==
    IF s # << >> /\ Head(s) \in Whitespace THEN LStrip(Tail(s)) ELSE s

RECURSIVE RStrip(_)
RStrip(s) ==
    IF s # << >> /\ s[Len(s)] \in Whitespace
    THEN RStrip(SubSeq(s, 1, Len(s) - 1)) ELSE s

\* a plausible slip: only the left side is trimmed
StripLeftOnly(s) == LStrip(s)

\* s.strip()
Strip(s) == RStrip(LStrip(s))

\* s.split("\n")
RECURSIVE SplitLines(_)
SplitLines(s) ==
    LET nl == Find(s, <<"\n">>, 0)
    IN  IF nl = -1 THEN <<s>>
        ELSE <<Slice(s, 0, nl)>> \o SplitLines(SliceFrom(s, nl + 1))

\* "\n".join(lines)
RECURSIVE JoinLines(_)
JoinLines(lines) ==
    IF lines = << >> THEN << >>
    ELSE IF Len(lines) = 1 THEN lines[1]
    ELSE lines[1] \o <<"\n">> \o JoinLines(Tail(lines))

\* ------------------------------------------------------------------------
\* Markers
\* ------------------------------------------------------------------------
start_tag == <<"bq", "bq", "bq", "m", "e", "r", "m", "a", "i", "d">>
end_tag   == <<"bq", "bq", "bq">>
separator == <<"-", "-", "-", "zhai", "yao", "-", "-", "-">>
GraphTD   == <<"g", "r", "a", "p", "h", " ", "T", "D">>
GraphLR   == <<"g", "r", "a", "p", "h", " ", "L", "R">>

\* a plausible slip: the fallback of lines 171-186 is never tried
HasGraphTokenNever(s) == FALSE

HasGraphToken(s) == Contains(s, GraphTD) \/ Contains(s, GraphLR)

\* ------------------------------------------------------------------------
\* streamlit_run.py: get_mermaid_code_from_text, the parsing of the reply
\* ------------------------------------------------------------------------

\* a plausible slip: the opening marker is not required
FencedBlockFoundNoStart(start_index, end_index) == end_index # -1

\* line 149 (run), line 124 (cloud), line 140 (2.0)
FencedBlockFound(start_index, end_index) ==
    start_index # -1 /\ end_index # -1

\* lines 173-186: the fallback scan over the lines of the reply
\* a plausible slip: the lines of a fence are taken as diagram lines
KeepsLineFences(in_block, stripped_line) ==
    in_block /\ stripped_line # << >>

\* line 180: the lines the fallback scan looks at once the token was seen
KeepsLine(in_block, stripped_line) ==
    in_block /\ stripped_line # << >> /\ ~StartsWith(stripped_line, end_tag)

RECURSIVE FallbackScan(_, _, _, _)
FallbackScan(lines, in_code_block, mermaid_lines, want_abstract) ==
    IF lines = << >> THEN mermaid_lines
    ELSE
      LET line == Head(lines)
          stripped_line == Strip(line)
          in_block == in_code_block
                      \/ StartsWith(stripped_line, GraphTD)
                      \/ StartsWith(stripped_line, GraphLR)
      IN  IF KeepsLine(in_block, stripped_line)
          THEN IF want_abstract /\ StartsWith(stripped_line, separator)
               THEN mermaid_lines                       \* break
               ELSE FallbackScan(Tail(lines), in_block,
                                 Append(mermaid_lines, line), want_abstract)
          ELSE FallbackScan(Tail(lines), in_block, mermaid_lines,
                            want_abstract)

\* a plausible slip: the text after the block is never taken as the summary
RemainingAsAbstractNever(remaining_content) == None

\* lines 163-168: without a separator the non-empty text after the closing
\* marker is taken as the summary
RemainingAsAbstract(remaining_content) ==
    IF remaining_content # << >> THEN remaining_content ELSE None

\* lines 137-213: the locals mermaid_code and abstract when line 215 is
\* reached, or the early return of line 213 (early = TRUE)
ParseRun(content, want_abstract) ==
    LET message_content == Strip(content)
        start_index == Find(message_content, start_tag, 0)
        end_index   == Find(message_content, end_tag,
                            start_index + Len(start_tag))
        sep_after   == Find(message_content, separator, end_index)
        sep_any     == Find(message_content, separator, 0)
        remaining_content ==
            Strip(SliceFrom(message_content, end_index + Len(end_tag)))
        mermaid_lines ==
            FallbackScan(SplitLines(message_content), FALSE, << >>,
                         want_abstract)
    IN  IF FencedBlockFound(start_index, end_index)
        THEN [ mermaid_code |->
                 Strip(Slice(message_content,
                             start_index + Len(start_tag), end_index)),
               abstract |->
                 IF ~want_abstract THEN None
                 ELSE IF sep_after # -1
                 THEN Strip(SliceFrom(message_content,
                                      sep_after + Len(separator)))
                 ELSE RemainingAsAbstract(remaining_content),
               early |-> FALSE ]
        ELSE IF HasGraphToken(message_content)
        THEN [ mermaid_code |->
                 IF mermaid_lines # << >>
                 THEN Strip(JoinLines(mermaid_lines)) ELSE None,
               abstract |->
                 IF want_abstract /\ sep_any # -1
                 THEN Strip(SliceFrom(message_content,
                                      sep_any + Len(separator)))
                 ELSE None,
               early |-> FALSE ]
        ELSE IF message_content # << >>
        THEN [ mermaid_code |-> None,
               abstract |->
                 IF want_abstract /\ sep_any # -1
                 THEN Strip(SliceFrom(message_content,
                                      sep_any + Len(separator)))
                 ELSE None,
               early |-> want_abstract /\ sep_any = -1 ]
        ELSE [ mermaid_code |-> None, abstract |-> None, early |-> FALSE ]

\* a plausible slip: the summary found without a diagram is returned
ReturnRunKeepAbstract(mermaid_code, abstract) ==
    IF Truthy(mermaid_code)
    THEN [ mermaid_code |-> mermaid_code, abstract |-> abstract ]
    ELSE [ mermaid_code |-> None, abstract |-> abstract ]

\* lines 215-225 (run), lines 133-138 (cloud): the returned dict
ReturnRun(mermaid_code, abstract) ==
    IF Truthy(mermaid_code)
    THEN [ mermaid_code |-> mermaid_code, abstract |-> abstract ]
    ELSE [ mermaid_code |-> None, abstract |-> None ]

\* lines 209-213: st.code(message_content) before the early return
ShownRun(content, want_abstract) ==
    IF ParseRun(content, want_abstract).early THEN Strip(content) ELSE None

\* streamlit_run.py get_mermaid_code_from_text on a reply with content
ExtractRun(content, want_abstract) ==
    LET p == ParseRun(content, want_abstract)
    IN  IF p.early THEN [ mermaid_code |-> None, abstract |-> None ]
        ELSE ReturnRun(p.mermaid_code, p.abstract)

\* ------------------------------------------------------------------------
\* streamlit_cloud.py: get_mermaid_code_from_text, the parsing of the reply
\* ------------------------------------------------------------------------
ExtractCloud(content, want_abstract) ==
    LET message_content == Strip(content)
        start_index == Find(message_content, start_tag, 0)
        end_index   == Find(message_content, end_tag,
                            start_index + Len(start_tag))
        separator_index == Find(message_content, separator, end_index)
    IN  IF FencedBlockFound(start_index, end_index)
        THEN ReturnRun(
               Strip(Slice(message_content,
                           start_index + Len(start_tag), end_index)),
               IF want_abstract /\ separator_index # -1
               THEN Strip(SliceFrom(message_content,
                                    separator_index + Len(separator)))
               ELSE None)
        ELSE ReturnRun(None, None)

\* ------------------------------------------------------------------------
\* streamlit_2.0.py: get_mermaid_code_from_text, the parsing of the reply
\* ------------------------------------------------------------------------
TagSkip20 == 10     \* the literal 10 of lines 138 and 141
SepSkip20 == 6      \* the literal 6 of line 147

Extract20(content, want_abstract) ==
    LET start_idx == Find(content, start_tag, 0)
        end_idx   == IF start_idx # -1
                     THEN Find(content, end_tag, start_idx + TagSkip20)
                     ELSE -1
        sep_idx   == Find(content, separator, 0)
        mermaid_code ==
            IF FencedBlockFound(start_idx, end_idx)
            THEN Strip(Slice(content, start_idx + TagSkip20, end_idx))
            ELSE None
        abstract ==
            IF want_abstract /\ sep_idx # -1
            THEN Strip(SliceFrom(content, sep_idx + SepSkip20))
            ELSE None
    IN  [ mermaid_code |-> mermaid_code,
          abstract     |-> abstract,
          success      |-> mermaid_code # None ]

\* ------------------------------------------------------------------------
\* Raw completion texts: concatenations of pieces
\* ------------------------------------------------------------------------
ProseLine == <<"\n", "A", "\n">>

Pieces == { start_tag, end_tag, separator, GraphTD, ProseLine }

RECURSIVE TextsUpTo(_)
TextsUpTo(n) ==
    IF n = 0 THEN { << >> }
    ELSE LET prev == TextsUpTo(n - 1)
         IN  prev \cup { t \o p : t \in prev, p \in Pieces }

Texts == TextsUpTo(MaxPieces)

\* ------------------------------------------------------------------------
\* Uploaded files, paths, item results
\* ------------------------------------------------------------------------
File(stem, suffix, body) == [ name |-> <<stem, suffix>>, body |-> body ]

\* the files a user may upload; the uploader accepts the same name twice
Uploads ==
    { File("a", ".txt", "utf8"),          \* UTF-8 text
      File("b", ".pdf", "pdf_text"),      \* PDF with extractable text
      File("c", ".txt", "undecodable"),   \* neither UTF-8 nor GBK
      File("d", ".pdf", "pdf_unreadable"),\* PdfReader raises
      File("e", ".txt", "blank") }        \* only whitespace

RECURSIVE SeqsUpTo(_, _)
SeqsUpTo(S, n) ==
    IF n = 0 THEN { << >> }
    ELSE LET prev == SeqsUpTo(S, n - 1)
         IN  prev \cup { Append(q, x) : q \in prev, x \in S }

Stem(f) == f.name[1]

MmdPath(stem)     == <<"mmd", stem, 0>>
PngPath(stem)     == <<"png", stem, 0>>
SummaryPath(stem) == <<"summary.txt", stem, 0>>
TempPath(stem, n) == <<"temp", stem, n>>

Err(tag) == <<tag>>

FailResult(f, err) ==
    [ filename |-> f.name, success |-> FALSE, error |-> err,
      mmd_path |-> None, png_path |-> None, summary_path |-> None,
      mermaid_code |-> None, abstract |-> None ]

\* streamlit_run.py lines 409-460: reading one uploaded file
ReadRun(f) ==
    IF f.body = "undecodable" THEN [ ok |-> FALSE, error |-> Err("txt_encoding") ]
    ELSE IF f.body = "pdf_unreadable" THEN [ ok |-> FALSE, error |-> Err("pdf_read") ]
    ELSE IF f.body = "blank" THEN [ ok |-> FALSE, error |-> Err("empty") ]
    ELSE [ ok |-> TRUE, error |-> None ]

\* streamlit_2.0.py lines 168-187 and 223-228: reading one uploaded file
Read20(f) ==
    IF f.body \in {"undecodable", "pdf_unreadable"}
    THEN [ ok |-> FALSE, error |-> Err("exception") ]
    ELSE IF f.body = "blank" THEN [ ok |-> FALSE, error |-> Err("empty") ]
    ELSE [ ok |-> TRUE, error |-> None ]

\* ------------------------------------------------------------------------
\* The completion endpoint: a failure, or a reply with content
\* ------------------------------------------------------------------------
ApiError == <<"ApiError">>

ReplyFull     == start_tag \o ProseLine \o end_tag \o separator \o ProseLine
ReplyCodeOnly == start_tag \o GraphTD \o end_tag
ReplyProse    == ProseLine

Replies == { ReplyFull, ReplyCodeOnly, ReplyProse }

ApiOutcomes == Replies \cup { ApiError }

NoResult == [ mermaid_code |-> None, abstract |-> None ]

\* streamlit_run.py lines 129-246: every failure of the request or of the
\* response shape returns the dict of two None (ApiError), a reply with
\* content is parsed
CompletionRun(resp, want_abstract) ==
    IF resp = ApiError THEN NoResult ELSE ExtractRun(resp, want_abstract)

\* streamlit_2.0.py lines 126-161: the request of lines 127-130 raises, which
\* line 155 catches (ApiError; with the stock requests library the statement
\* "async with requests.Session()" raises on every call), or it yields a
\* reply whose content is parsed
Completion20(resp, want_abstract) ==
    IF resp = ApiError
    THEN [ mermaid_code |-> None, abstract |-> None, success |-> FALSE ]
    ELSE Extract20(resp, want_abstract)

\* the request of line 131 (run) and lines 127-128 (2.0) is reached only
\* behind the key check of line 61 (run) and line 82 (2.0)
RequestsSent(key, n) == IF key THEN n + 1 ELSE n

\* the st.error of line 62 (run) and line 83 (2.0)
KeyErrorsReported(key, n) == IF key THEN n ELSE n + 1

\* streamlit_run.py lines 61-63 and 129-246: get_mermaid_code_from_text
GetCodeRun(key, resp, want_abstract) ==
    IF ~key THEN NoResult ELSE CompletionRun(resp, want_abstract)

\* ------------------------------------------------------------------------
\* The completion clients and what goes wrong between request and reply
\* ------------------------------------------------------------------------
\* the request times out, the connection fails, the status is not 2xx, the
\* body is not JSON, the JSON has no "choices", the choice has no content
ApiFailures == { "Timeout", "ConnectionError", "HTTPError",
                 "JSONDecodeError", "NoChoices", "NoContent" }

\* run lines 136, 226-233 and cloud lines 111, 139-141 test for "choices";
\* 2.0 line 132 and taily line 345 index the body without a test
TestsForChoices(client) == client \in {"run", "cloud"}

\* the exception raised inside the client's try block, "none" without one
Raised(client, failure) ==
    IF failure = "NoChoices"
    THEN IF TestsForChoices(client) THEN "none" ELSE "KeyError"
    ELSE IF failure = "NoContent" THEN "KeyError"
    ELSE failure

\* a plausible slip: the last except clause is missing
ExceptRunSpecificOnly == { "Timeout", "RequestException", "JSONDecodeError" }

\* streamlit_run.py lines 235-246
ExceptRun == { "Timeout", "RequestException", "JSONDecodeError", "Exception" }

\* streamlit_cloud.py line 143, streamlit_2.0.py line 155, taily line 346
ExceptAll == { "Exception" }

\* the class hierarchy of requests.exceptions
Catches(clause, exception) ==
    \/ clause = "Exception"
    \/ clause = exception
    \/ clause = "RequestException"
         /\ exception \in {"Timeout", "ConnectionError", "HTTPError"}

Caught(clauses, exception) ==
    exception = "none" \/ \E clause \in clauses : Catches(clause, exception)

\* streamlit_run.py lines 129-246
ClientRun(resp, content, want_abstract) ==
    IF resp = "reply"
    THEN [ escaped |-> FALSE, result |-> ExtractRun(content, want_abstract) ]
    ELSE [ escaped |-> ~Caught(ExceptRun, Raised("run", resp)),
           result |-> CompletionRun(ApiError, want_abstract) ]

\* streamlit_cloud.py lines 104-145
ClientCloud(resp, content, want_abstract) ==
    IF resp = "reply"
    THEN [ escaped |-> FALSE, result |-> ExtractCloud(content, want_abstract) ]
    ELSE [ escaped |-> ~Caught(ExceptAll, Raised("cloud", resp)),
           result |-> NoResult ]

\* streamlit_2.0.py lines 126-161
Client20(resp, content, want_abstract) ==
    IF resp = "reply"
    THEN [ escaped |-> FALSE, result |-> Extract20(content, want_abstract) ]
    ELSE [ escaped |-> ~Caught(ExceptAll, Raised("v20", resp)),
           result |-> Completion20(ApiError, want_abstract) ]

\* taily lines 347-348: the text returned in place of the completion
ErrorText(exception) == <<"chuli", "cuowu", ":", " ", exception>>

\* taily_streamlit.py lines 342-348
ClientTaily(resp, content) ==
    IF resp = "reply"
    THEN [ escaped |-> FALSE, result |-> [ text |-> content ] ]
    ELSE [ escaped |-> ~Caught(ExceptAll, Raised("taily", resp)),
           result |-> [ text |-> ErrorText(Raised("taily", resp)) ] ]

\* ------------------------------------------------------------------------
\* streamlit_run.py: the batch handler
\* ------------------------------------------------------------------------
max_retries == 2

NoItem == [ mermaid_code |-> None, abstract_text |-> None,
            mmd_success |-> FALSE, summary_success |-> FALSE,
            output_summary_file |-> None ]

CurrentFile == uploaded_files[processed_files]

\* a plausible slip: the stored report is not cleared
KeepResults(old) == old

\* line 390 (run), line 252 (2.0)
ClearResults(old) == << >>

\* lines 388-400
RunStart ==
    /\ variant = "run" /\ pc = "idle"
    /\ uploaded_files # << >>
    /\ results' = ClearResults(results)
    /\ zip_buffer' = None
    /\ all_results' = << >>
    /\ processed_files' = 0
    /\ api_calls' = 0
    /\ key_errors' = 0
    /\ pc' = "item"
    /\ UNCHANGED <<xvars, tvars>>
    /\ UNCHANGED rvars
    /\ UNCHANGED api_key
    /\ UNCHANGED <<variant, uploaded_files, item, retry_count,
                   current_mermaid_code, original_text, render_calls, fs,
                   empty_files, task_pc, task_result, completion_order>>

\* line 402: after an item the loop goes on with the next file, or ends
AfterItem(done, total) == IF done = total THEN "finish" ELSE "item"

\* a plausible slip: break instead of continue
AfterFailedItemBreak(done, total) == "finish"

\* lines 425, 442, 454, 460: continue
AfterFailedItem(done, total) == AfterItem(done, total)

\* subprocess.run of lines 288-297 has not returned a CompletedProcess
NoProcess == [ completed |-> FALSE, returncode |-> 0, stderr |-> << >> ]

\* a new item: nothing is left of the previous item's render call
NoCallYet ==
    /\ render_calls' = 0
    /\ process' = NoProcess
    /\ error_message' = None
    /\ previous_error' = None

\* lines 403-460: an item whose file cannot be read or is empty
RunReadFail ==
    /\ variant = "run" /\ pc = "item"
    /\ LET f == uploaded_files[processed_files + 1]
           r == ReadRun(f)
       IN  /\ ~r.ok
           /\ all_results' = Append(all_results, FailResult(f, r.error))
    /\ processed_files' = processed_files + 1
    /\ pc' = AfterFailedItem(processed_files + 1, Len(uploaded_files))
    /\ NoCallYet
    /\ api_calls' = 0
    /\ UNCHANGED <<xvars, tvars>>
    /\ UNCHANGED <<variant, uploaded_files, results, zip_buffer, item,
                   retry_count, current_mermaid_code, original_text,
                   fs, empty_files, task_pc, task_result,
                   completion_order, temp_code, reply, api_key,
                   key_errors>>

\* lines 403-501: read the file, request the completion, save the diagram
\* source and the summary, and enter render_mermaid_to_image (lines 260-265)
RunCompletion ==
    /\ variant = "run" /\ pc = "item"
    /\ ReadRun(uploaded_files[processed_files + 1]).ok
    /\ processed_files' = processed_files + 1
    /\ NoCallYet
    /\ api_calls' = RequestsSent(api_key, 0)
    /\ key_errors' = KeyErrorsReported(api_key, key_errors)
    /\ \E resp \in ApiOutcomes, mmd_ok \in BOOLEAN, sum_ok \in BOOLEAN :
         LET f == uploaded_files[processed_files + 1]
             api_result == GetCodeRun(api_key, resp, translate_abstract)
             mermaid_code == api_result.mermaid_code
             abstract_text == api_result.abstract
             save_summary == translate_abstract /\ Truthy(abstract_text)
         IN  IF Truthy(mermaid_code)
             THEN /\ item' =
                       [ mermaid_code |-> mermaid_code,
                         abstract_text |-> abstract_text,
                         mmd_success |-> mmd_ok,
                         summary_success |->
                           IF translate_abstract
                           THEN save_summary /\ sum_ok ELSE TRUE,
                         output_summary_file |->
                           IF save_summary THEN SummaryPath(Stem(f))
                           ELSE None ]
                  /\ fs' = fs \cup (IF mmd_ok THEN {MmdPath(Stem(f))} ELSE {})
                              \cup (IF save_summary /\ sum_ok
                                    THEN {SummaryPath(Stem(f))} ELSE {})
                  /\ retry_count' = 0
                  /\ current_mermaid_code' = mermaid_code
                  /\ original_text' = TRUE
                  /\ reply' = resp
                  /\ pc' = "render"
                  /\ UNCHANGED all_results
             ELSE /\ all_results' =
                       Append(all_results, FailResult(f, Err("no_code")))
                  /\ pc' = AfterItem(processed_files + 1, Len(uploaded_files))
                  /\ UNCHANGED <<item, fs, retry_count, current_mermaid_code,
                                 original_text, reply>>
    /\ UNCHANGED <<xvars, tvars>>
    /\ UNCHANGED <<variant, uploaded_files, results, zip_buffer, empty_files,
                   task_pc, task_result, completion_order, temp_code,
                   api_key>>

\* a plausible slip: the record carries no diagnostic
ResultErrorNone(ok) == None

\* lines 516-517: the diagnostic of the result record
ResultError(ok) == IF ok THEN None ELSE Err("item_errors")

\* lines 503-520: the result record of an item that got a diagram source
ItemResult(f, it, render_success) ==
    LET ok == it.mmd_success /\ render_success /\ it.summary_success
    IN  [ filename |-> f.name,
          success |-> ok,
          mmd_path |-> IF it.mmd_success THEN MmdPath(Stem(f)) ELSE None,
          png_path |-> IF render_success THEN PngPath(Stem(f)) ELSE None,
          summary_path |->
            IF it.summary_success /\ it.output_summary_file # None
            THEN it.output_summary_file ELSE None,
          error |-> ResultError(ok),
          mermaid_code |-> IF it.mmd_success THEN it.mermaid_code ELSE None,
          abstract |->
            IF it.summary_success /\ Truthy(it.abstract_text)
            THEN it.abstract_text ELSE None ]

\* the call returns: its locals are gone and the result is recorded
RecordRun(render_success) ==
    /\ all_results' =
         Append(all_results, ItemResult(CurrentFile, item, render_success))
    /\ pc' = AfterItem(processed_files, Len(uploaded_files))
    /\ item' = NoItem
    /\ retry_count' = 0
    /\ current_mermaid_code' = None
    /\ original_text' = FALSE
    /\ reply' = None

\* the call goes on with the same diagram source
StayInCall ==
    UNCHANGED <<all_results, item, current_mermaid_code, original_text,
                reply>>

\* a plausible slip: the retry counter is not advanced
NextRetryCountStuck(n) == n

\* line 323
NextRetryCount(n) == n + 1

\* a plausible slip: only the exit code is looked at
RenderSucceededExitCodeOnly(returncode, exists, size) == returncode = 0

\* line 304
RenderSucceeded(returncode, exists, size) ==
    returncode = 0 /\ exists /\ size > 0

\* line 322
\* a plausible slip: the retry does not ask for the original text
CanRetryWithoutText(has_text, n) == n < max_retries - 1

CanRetry(has_text, n) == has_text /\ n < max_retries - 1

\* lines 309-317: the message built from the finished process and from the
\* output file (the renderer writes nothing to its standard output)
ErrorMessage(returncode, stderr, exists, size) ==
    <<"render_failed", <<returncode>>, stderr,
      IF ~exists THEN "not_generated"
      ELSE IF size = 0 THEN "size_0" ELSE "">>

\* a plausible slip: the request is sent without the hint
RenderErrorMsgNone(stderr, message) == None

\* line 327: the hint handed to the new completion request
RenderErrorMsg(stderr, message) ==
    IF stderr # << >> THEN <<"cli_error", stderr>> ELSE message

\* a plausible slip: the temporary file is left behind
KeepTemp(files, path) == files

\* lines 300-301, 281-282, 352-353, 358-359: os.remove(temp_file_path)
RemoveTemp(files, path) == files \ {path}

\* lines 267-283, 349-360: the head of one attempt
RenderBegin ==
    /\ variant = "run" /\ pc = "render"
    /\ render_calls < max_retries + 1
    /\ IF retry_count < max_retries
       THEN \E env \in {"written", "mmdc_missing", "open_raises",
                         "write_raises"} :
              IF env = "written"
              THEN /\ fs' = fs \cup {TempPath(Stem(CurrentFile), retry_count)}
                   /\ temp_code' = current_mermaid_code
                   /\ pc' = "mmdc"
                   /\ StayInCall
                   /\ UNCHANGED retry_count
              ELSE /\ RecordRun(FALSE)
                   /\ fs' = IF env = "open_raises" THEN fs
                            ELSE RemoveTemp(
                                   fs \cup {TempPath(Stem(CurrentFile),
                                                     retry_count)},
                                   TempPath(Stem(CurrentFile), retry_count))
                   /\ UNCHANGED temp_code
       ELSE /\ RecordRun(FALSE)
            /\ UNCHANGED <<fs, temp_code>>
    /\ UNCHANGED <<xvars, tvars>>
    /\ UNCHANGED <<variant, uploaded_files, results, zip_buffer,
                   processed_files, render_calls, empty_files, task_pc,
                   task_result, completion_order, process, error_message,
                   previous_error, api_key, api_calls, key_errors>>

RenderOutcomes == {"ok", "rc_nonzero", "rc0_nofile", "rc0_empty", "raises"}

\* lines 286-347, 355-360: the renderer runs; success, retry or failure
RenderRun ==
    /\ variant = "run" /\ pc = "mmdc"
    /\ render_calls' = render_calls + 1
    /\ \E out \in RenderOutcomes :
         LET stem == Stem(CurrentFile)
             png == PngPath(stem)
             fs1 == RemoveTemp(fs, TempPath(stem, retry_count))
             fs2 == IF out \in {"ok", "rc0_empty"} THEN fs1 \cup {png}
                    ELSE fs1
             empty2 == IF out = "ok" THEN empty_files \ {png}
                       ELSE IF out = "rc0_empty" THEN empty_files \cup {png}
                       ELSE empty_files
             returncode == IF out = "rc_nonzero" THEN 1 ELSE 0
             stderr == IF out = "rc_nonzero"
                       THEN <<"stderr", retry_count + 1>> ELSE << >>
             size == IF png \in empty2 THEN 0 ELSE 1
             ok == RenderSucceeded(returncode, png \in fs2, size)
         IN  /\ fs' = fs2
             /\ empty_files' = empty2
             /\ temp_code' = None
             /\ process' =
                  IF out = "raises" THEN NoProcess
                  ELSE [ completed |-> TRUE, returncode |-> returncode,
                         stderr |-> stderr ]
             /\ error_message' =
                  IF out = "raises" \/ ok THEN error_message
                  ELSE ErrorMessage(returncode, stderr, png \in fs2, size)
             /\ IF out = "raises"
                THEN RecordRun(FALSE)
                ELSE IF ok
                THEN RecordRun(TRUE)
                ELSE IF CanRetry(original_text, retry_count)
                THEN /\ retry_count' = NextRetryCount(retry_count)
                     /\ pc' = "regen"
                     /\ StayInCall
                ELSE RecordRun(FALSE)
    /\ UNCHANGED <<xvars, tvars>>
    /\ UNCHANGED <<variant, uploaded_files, results, zip_buffer,
                   processed_files, task_pc, task_result, completion_order,
                   previous_error, api_key, api_calls, key_errors>>

\* lines 326-343: a new completion is requested with the renderer's error
Regenerate ==
    /\ variant = "run" /\ pc = "regen"
    /\ previous_error' = RenderErrorMsg(process.stderr, error_message)
    /\ api_calls' = RequestsSent(api_key, api_calls)
    /\ \E resp \in ApiOutcomes :
         LET new_mermaid_code ==
                 GetCodeRun(api_key, resp, translate_abstract).mermaid_code
         IN  IF ~Truthy(new_mermaid_code)
             THEN RecordRun(FALSE)
             ELSE /\ current_mermaid_code' = new_mermaid_code
                  /\ reply' = resp
                  /\ pc' = "render"
                  /\ UNCHANGED <<all_results, item, retry_count,
                                 original_text>>
    /\ UNCHANGED <<xvars, tvars>>
    /\ UNCHANGED <<variant, uploaded_files, results, zip_buffer,
                   processed_files, render_calls, fs, empty_files, task_pc,
                   task_result, completion_order, process, error_message,
                   temp_code, api_key, key_errors>>

\* a plausible slip: the image is left out of the archive
ZipEntriesRunNoPng(r, files) ==
    (IF r.mmd_path # None /\ r.mmd_path \in files
     THEN <<r.mmd_path>> ELSE << >>)
    \o (IF r.summary_path # None /\ r.summary_path \in files
        THEN <<r.summary_path>> ELSE << >>)

\* the entries zipf.write adds for one result (lines 566-588)
ZipEntriesRun(r, files) ==
    (IF r.mmd_path # None /\ r.mmd_path \in files
     THEN <<r.mmd_path>> ELSE << >>)
    \o (IF r.png_path # None /\ r.png_path \in files
        THEN <<r.png_path>> ELSE << >>)
    \o (IF r.summary_path # None /\ r.summary_path \in files
        THEN <<r.summary_path>> ELSE << >>)

RECURSIVE ZipAllRun(_, _)
ZipAllRun(rs, files) ==
    IF rs = << >> THEN << >>
    ELSE ZipEntriesRun(Head(rs), files) \o ZipAllRun(Tail(rs), files)

IsSuccess(r) == r.success

\* a plausible slip: the archive is built whether or not an item succeeded
ZipRunAlways(rs, files) == ZipAllRun(SelectSeq(rs, IsSuccess), files)

\* lines 541-596: the value left in st.session_state.zip_buffer
ZipRun(rs, files) ==
    LET successful_files == SelectSeq(rs, IsSuccess)
        entries == ZipAllRun(successful_files, files)
    IN  IF successful_files = << >> THEN None
        ELSE IF entries = << >> THEN None
        ELSE entries

\* lines 537-596
RunFinish ==
    /\ variant = "run" /\ pc = "finish"
    /\ results' = all_results
    /\ zip_buffer' = ZipRun(all_results, fs)
    /\ pc' = "done"
    /\ UNCHANGED <<xvars, tvars>>
    /\ UNCHANGED <<variant, uploaded_files, all_results, processed_files,
                   item, retry_count, current_mermaid_code, original_text,
                   render_calls, fs, empty_files, task_pc, task_result,
                   completion_order, api_key, api_calls, key_errors>>
    /\ UNCHANGED rvars

\* ------------------------------------------------------------------------
\* streamlit_2.0.py: the batch handler
\* ------------------------------------------------------------------------
NoTask == FailResult(File("", "", ""), None)

Indices == 1 .. Len(uploaded_files)

\* lines 248-265: the handler clears the session and creates the coroutines
V20Start ==
    /\ variant = "v20" /\ pc = "idle"
    /\ uploaded_files # << >>
    /\ results' = ClearResults(results)
    /\ zip_buffer' = None
    /\ task_pc' = [ i \in Indices |-> "pending" ]
    /\ task_result' = [ i \in Indices |-> NoTask ]
    /\ completion_order' = << >>
    /\ api_calls' = 0
    /\ key_errors' = 0
    /\ pc' = "gather"
    /\ UNCHANGED <<xvars, tvars>>
    /\ UNCHANGED rvars
    /\ UNCHANGED <<variant, uploaded_files, all_results, processed_files,
                   item, retry_count, current_mermaid_code, original_text,
                   render_calls, fs, empty_files, api_key>>

\* lines 163-192: a coroutine runs up to its completion request; the event
\* loop starts the coroutines in the order in which gather received them
V20TaskBegin(i) ==
    /\ variant = "v20" /\ pc = "gather"
    /\ task_pc[i] = "pending"
    /\ \A j \in Indices : j < i => task_pc[j] # "pending"
    /\ LET f == uploaded_files[i]
           r == Read20(f)
       IN  IF r.ok /\ api_key
           THEN /\ task_pc' = [ task_pc EXCEPT ![i] = "awaiting" ]
                /\ api_calls' = RequestsSent(api_key, api_calls)
                /\ UNCHANGED <<task_result, completion_order, key_errors>>
           ELSE /\ task_pc' = [ task_pc EXCEPT ![i] = "done" ]
                /\ task_result' =
                     [ task_result EXCEPT ![i] =
                         FailResult(f, IF r.ok THEN Err("no_key")
                                       ELSE r.error) ]
                /\ completion_order' = Append(completion_order, i)
                /\ key_errors' =
                     IF r.ok THEN KeyErrorsReported(api_key, key_errors)
                     ELSE key_errors
                /\ UNCHANGED api_calls
    /\ UNCHANGED <<xvars, tvars>>
    /\ UNCHANGED rvars
    /\ UNCHANGED <<variant, uploaded_files, pc, results, zip_buffer,
                   all_results, processed_files, item, retry_count,
                   current_mermaid_code, original_text, render_calls, fs,
                   empty_files, api_key>>

\* lines 194-228: what process_file returns once the completion is there
TaskResult20(f, result, want_abstract, mmd_ok, sum_ok) ==
    LET save_summary == want_abstract /\ Truthy(result.abstract)
    IN  IF ~result.success
        THEN FailResult(f, Err("no_code"))
        ELSE IF ~mmd_ok \/ (save_summary /\ ~sum_ok)
        THEN FailResult(f, Err("exception"))
        ELSE [ filename |-> f.name, success |-> TRUE, error |-> None,
               mmd_path |-> MmdPath(Stem(f)),
               png_path |-> None,
               summary_path |->
                 IF save_summary THEN SummaryPath(Stem(f)) ELSE None,
               mermaid_code |-> result.mermaid_code,
               abstract |-> result.abstract ]

\* lines 126-161 and 194-228: the completion of coroutine i arrives, in any
\* order with respect to the other coroutines
V20TaskComplete(i) ==
    /\ variant = "v20" /\ pc = "gather"
    /\ task_pc[i] = "awaiting"
    /\ \E resp \in ApiOutcomes, mmd_ok \in BOOLEAN, sum_ok \in BOOLEAN :
         LET f == uploaded_files[i]
             result == Completion20(resp, translate_abstract)
             save_summary == translate_abstract /\ Truthy(result.abstract)
         IN  /\ task_result' =
                  [ task_result EXCEPT ![i] =
                      IF resp = ApiError THEN FailResult(f, Err("exception"))
                      ELSE TaskResult20(f, result, translate_abstract,
                                        mmd_ok, sum_ok) ]
             /\ fs' = IF ~result.success \/ ~mmd_ok THEN fs
                      ELSE fs \cup {MmdPath(Stem(f))}
                              \cup (IF save_summary /\ sum_ok
                                    THEN {SummaryPath(Stem(f))} ELSE {})
    /\ task_pc' = [ task_pc EXCEPT ![i] = "done" ]
    /\ completion_order' = Append(completion_order, i)
    /\ UNCHANGED <<xvars, tvars>>
    /\ UNCHANGED rvars
    /\ UNCHANGED <<variant, uploaded_files, pc, results, zip_buffer,
                   all_results, processed_files, item, retry_count,
                   current_mermaid_code, original_text, render_calls,
                   empty_files, api_key, api_calls, key_errors>>

\* a plausible slip: the results are collected as the coroutines finish
GatherByCompletion(returned, order) ==
    [ k \in 1 .. Len(order) |-> returned[order[k]] ]

\* line 265: asyncio.gather returns the results in the order of its arguments
Gather(returned, order) ==
    [ k \in 1 .. Len(order) |-> returned[k] ]

\* the entries zipf.write adds for one result (lines 276-280)
ZipEntries20(r, files) ==
    (IF r.mmd_path \in files THEN <<r.mmd_path>> ELSE << >>)
    \o (IF r.summary_path # None /\ r.summary_path \in files
        THEN <<r.summary_path>> ELSE << >>)

RECURSIVE ZipAll20(_, _)
ZipAll20(rs, files) ==
    IF rs = << >> THEN << >>
    ELSE ZipEntries20(Head(rs), files) \o ZipAll20(Tail(rs), files)

\* lines 271-286: the value left in st.session_state.zip_buffer
Zip20(rs, files) ==
    LET successful == SelectSeq(rs, IsSuccess)
    IN  IF successful = << >> THEN None ELSE ZipAll20(successful, files)

\* lines 265-286: every coroutine has returned
V20Finish ==
    /\ variant = "v20" /\ pc = "gather"
    /\ \A i \in Indices : task_pc[i] = "done"
    /\ LET gathered == Gather(task_result, completion_order)
       IN  /\ results' = gathered
           /\ zip_buffer' = Zip20(gathered, fs)
    /\ pc' = "done"
    /\ UNCHANGED <<xvars, tvars>>
    /\ UNCHANGED <<variant, uploaded_files, all_results, processed_files,
                   item, retry_count, current_mermaid_code, original_text,
                   render_calls, fs, empty_files, task_pc, task_result,
                   completion_order, api_key, api_calls, key_errors>>
    /\ UNCHANGED rvars

\* ------------------------------------------------------------------------
\* taily_streamlit.py: AcademicPaperReviewer and main
\* ------------------------------------------------------------------------
\* lines 128-141
professional_domains ==
    { "agupubs.onlinelibrary.wiley.com", "journals.ametsoc.org",
      "rmets.onlinelibrary.wiley.com", "wmo.int", "nasa.gov", "arxiv.org",
      "springer.com", "nature.com", "researchgate.net", "science.org",
      "pnas.org", "jstor.org" }

\* a URL is a sequence of parts; `domain in url` finds a part
InUrl(domain, url) == \E i \in 1 .. Len(url) : url[i] = domain

\* the URLs of search results: of a configured domain, of another domain,
\* of another domain with a configured one in its query, and no URL at all
Urls == { <<"https://", "arxiv.org", "/abs/1">>,
          <<"https://", "example.com", "/a">>,
          <<"https://", "example.com", "/?ref=", "nature.com">>,
          << >> }

Scores == 0 .. 1

Hit == [ url : Urls, score : Scores ]

Raises == [ outcome |-> "raises", results |-> << >> ]

\* what tavily_client.search comes to: it raises, or returns this many
\* results (the service need not respect max_results or include_domains)
ResponsesUpTo(n) ==
    { Raises } \cup
    { [ outcome |-> "results", results |-> hits ] : hits \in SeqsUpTo(Hit, n) }

\* line 163: any(domain in result.get("url", "") for domain in ...)
IsProfessional(url) == \E domain \in professional_domains : InUrl(domain, url)

\* lines 161-171: the results of a configured domain, in response order
RECURSIVE Filtered(_)
Filtered(hits) ==
    IF hits = << >> THEN << >>
    ELSE IF IsProfessional(Head(hits).url)
    THEN <<Head(hits)>> \o Filtered(Tail(hits))
    ELSE Filtered(Tail(hits))

\* a stable insertion behind the entries of a score not below that of hit
RECURSIVE InsertByScore(_, _)
InsertByScore(hit, sorted) ==
    IF sorted = << >> THEN <<hit>>
    ELSE IF Head(sorted).score >= hit.score
    THEN <<Head(sorted)>> \o InsertByScore(hit, Tail(sorted))
    ELSE <<hit>> \o sorted

\* line 174: results.sort(key=lambda x: x["score"], reverse=True)
RECURSIVE SortByScore(_)
SortByScore(hits) ==
    IF hits = << >> THEN << >>
    ELSE InsertByScore(hits[Len(hits)],
                       SortByScore(SubSeq(hits, 1, Len(hits) - 1)))

\* a plausible slip: the sorted list is returned whole
FirstAll(hits, n) == hits

\* line 176: results[:max_results]
First(hits, n) == SubSeq(hits, 1, Min(n, Len(hits)))

\* lines 143-182: search_with_tavily
SearchWithTavily(resp, n) ==
    IF resp = Raises THEN << >>
    ELSE First(SortByScore(Filtered(resp.results)), n)

\* lines 188-201: the keys of expert_prompts
expert_prompts == <<"zongjie", "wenti", "gainian", "weilai">>

\* lines 207-212: one _call_deepseek per expert
ExpertRequests == Len(expert_prompts)

\* a plausible slip: the formatting asks the model for nothing
FormatRequestsNone(experts) == 0

\* lines 217-279: format_academic_output calls _extract_background (232),
\* _format_methodology (237, if the question expert answered) and
\* _format_discussion (241), each of which calls _call_deepseek once
FormatRequests(experts) ==
    1 + (IF \E i \in 1 .. Len(experts) : experts[i] = "wenti" THEN 1 ELSE 0)
      + 1

NoResponse == [ outcome |-> "none", results |-> << >> ]

\* the script is not running
IdleScript ==
    /\ trigger = "none"
    /\ tpc = "idle"
    /\ tavily_response = NoResponse
    /\ search_results = << >>
    /\ searches = 0
    /\ llm_requests = 0

\* lines 510-512 and the widgets' initial values: the keys come from the
\* environment, the topic is empty, the slider is at 10
IdleReview ==
    /\ run_review = FALSE
    /\ tavily_api_key = FALSE
    /\ deepseek_api_key = FALSE
    /\ topic = FALSE
    /\ max_results = 10
    /\ IdleScript

\* ------------------------------------------------------------------------
\* The batch specification
\* ------------------------------------------------------------------------
IdleExtract ==
    /\ raw_text = << >>
    /\ extractor = "none"
    /\ extracted = NoResult
    /\ response = "reply"
    /\ escaped = FALSE
    /\ displayed = None

\* the button handler is not running
IdleHandler ==
    /\ pc = "idle"
    /\ all_results = << >>
    /\ processed_files = 0
    /\ item = NoItem
    /\ retry_count = 0
    /\ current_mermaid_code = None
    /\ original_text = FALSE
    /\ render_calls = 0
    /\ empty_files = {}
    /\ task_pc = << >>
    /\ task_result = << >>
    /\ completion_order = << >>
    /\ process = NoProcess
    /\ error_message = None
    /\ previous_error = None
    /\ temp_code = None
    /\ reply = None
    /\ api_calls = 0
    /\ key_errors = 0

\* the session state after lines 380-385 (run) and 242-245 (2.0), and an
\* empty output directory
IdleBatch ==
    /\ IdleHandler
    /\ results = << >>
    /\ zip_buffer = None
    /\ fs = {}

Init ==
    /\ variant \in {"run", "v20"}
    /\ api_key \in BOOLEAN
    /\ uploaded_files \in SeqsUpTo(Uploads, MaxFiles)
    /\ translate_abstract \in BOOLEAN
    /\ IdleBatch
    /\ IdleExtract
    /\ IdleReview

Next ==
    \/ RunStart
    \/ RunReadFail
    \/ RunCompletion
    \/ RenderBegin
    \/ RenderRun
    \/ Regenerate
    \/ RunFinish
    \/ V20Start
    \/ \E i \in Indices : V20TaskBegin(i)
    \/ \E i \in Indices : V20TaskComplete(i)
    \/ V20Finish

Spec == Init /\ [][Next]_vars

\* ------------------------------------------------------------------------
\* A batch started in a session that has run a batch before
\* ------------------------------------------------------------------------
\* the one file of the earlier batch, no longer in the uploader
EarlierFile == File("z", ".txt", "utf8")

\* what the earlier batch left in the output directory
EarlierFiles ==
    IF variant = "run"
    THEN { MmdPath(Stem(EarlierFile)), PngPath(Stem(EarlierFile)) }
    ELSE { MmdPath(Stem(EarlierFile)) }

\* what the earlier batch left in st.session_state.results; its item
\* succeeded without a summary
EarlierResults ==
    IF variant = "run"
    THEN << ItemResult(EarlierFile,
                       [ mermaid_code |-> GraphTD, abstract_text |-> None,
                         mmd_success |-> TRUE, summary_success |-> TRUE,
                         output_summary_file |-> None ],
                       TRUE) >>
    ELSE << TaskResult20(EarlierFile,
                         [ mermaid_code |-> GraphTD, abstract |-> None,
                           success |-> TRUE ],
                         FALSE, TRUE, TRUE) >>

\* what the earlier batch left in st.session_state.zip_buffer
EarlierArchive ==
    IF variant = "run" THEN ZipRun(EarlierResults, EarlierFiles)
    ELSE Zip20(EarlierResults, EarlierFiles)

InitRerun ==
    /\ variant \in {"run", "v20"}
    /\ api_key \in BOOLEAN
    /\ uploaded_files \in SeqsUpTo(Uploads, MaxFiles)
    /\ translate_abstract \in BOOLEAN
    /\ IdleHandler
    /\ results = EarlierResults
    /\ zip_buffer = EarlierArchive
    /\ fs = EarlierFiles
    /\ IdleExtract
    /\ IdleReview

SpecRerun == InitRerun /\ [][Next]_vars

\* ------------------------------------------------------------------------
\* One item of streamlit_run.py, and render_mermaid_to_image called without
\* its optional original_text (line 249: original_text=None)
\* ------------------------------------------------------------------------
Readable == { f \in Uploads : ReadRun(f).ok }

FirstCodes ==
    { CompletionRun(x, FALSE).mermaid_code : x \in Replies } \ { None }

InitItem ==
    /\ variant = "run"
    /\ api_key \in BOOLEAN
    /\ translate_abstract \in BOOLEAN
    /\ uploaded_files \in { <<f>> : f \in Readable }
    /\ results = << >> /\ zip_buffer = None /\ fs = {}
    /\ all_results = << >>
    /\ retry_count = 0 /\ render_calls = 0
    /\ empty_files = {}
    /\ task_pc = << >> /\ task_result = << >> /\ completion_order = << >>
    /\ process = NoProcess
    /\ error_message = None /\ previous_error = None
    /\ temp_code = None /\ reply = None
    /\ api_calls = 0 /\ key_errors = 0
    /\ original_text = FALSE
    /\ \/ /\ pc = "item"
          /\ processed_files = 0
          /\ item = NoItem
          /\ current_mermaid_code = None
       \/ /\ pc = "render"
          /\ processed_files = 1
          /\ current_mermaid_code \in FirstCodes
          /\ item = [ mermaid_code |-> current_mermaid_code,
                      abstract_text |-> None, mmd_success |-> TRUE,
                      summary_success |-> ~translate_abstract,
                      output_summary_file |-> None ]
    /\ IdleExtract
    /\ IdleReview

NextItem ==
    \/ RunCompletion
    \/ RenderBegin
    \/ RenderRun
    \/ Regenerate

SpecItem == InitItem /\ [][NextItem]_vars

\* ------------------------------------------------------------------------
\* Extraction harness: one reply, one extractor call
\* ------------------------------------------------------------------------
InitExtract ==
    /\ \/ response = "reply" /\ raw_text \in Texts
       \/ response \in ApiFailures /\ raw_text = << >>
    /\ translate_abstract \in BOOLEAN
    /\ extractor = "none"
    /\ extracted = NoResult
    /\ escaped = FALSE
    /\ displayed = None
    /\ variant = "none"
    /\ uploaded_files = << >>
    /\ api_key = TRUE
    /\ IdleBatch
    /\ IdleReview

CallExtractRun ==
    /\ extractor = "none"
    /\ extractor' = "run"
    /\ LET r == ClientRun(response, raw_text, translate_abstract)
       IN  extracted' = r.result /\ escaped' = r.escaped
    /\ displayed' = IF response = "reply"
                    THEN ShownRun(raw_text, translate_abstract) ELSE None
    /\ UNCHANGED <<raw_text, translate_abstract, response>>
    /\ UNCHANGED <<bvars, tvars>>

CallExtractCloud ==
    /\ extractor = "none"
    /\ extractor' = "cloud"
    /\ LET r == ClientCloud(response, raw_text, translate_abstract)
       IN  extracted' = r.result /\ escaped' = r.escaped
    /\ displayed' = None
    /\ UNCHANGED <<raw_text, translate_abstract, response>>
    /\ UNCHANGED <<bvars, tvars>>

CallExtract20 ==
    /\ extractor = "none"
    /\ extractor' = "v20"
    /\ LET r == Client20(response, raw_text, translate_abstract)
       IN  extracted' = r.result /\ escaped' = r.escaped
    /\ displayed' = None
    /\ UNCHANGED <<raw_text, translate_abstract, response>>
    /\ UNCHANGED <<bvars, tvars>>

\* taily_streamlit.py: AcademicPaperReviewer._call_deepseek
CallDeepseek ==
    /\ extractor = "none"
    /\ extractor' = "taily"
    /\ LET r == ClientTaily(response, raw_text)
       IN  extracted' = r.result /\ escaped' = r.escaped
    /\ displayed' = None
    /\ UNCHANGED <<raw_text, translate_abstract, response>>
    /\ UNCHANGED <<bvars, tvars>>

NextExtract ==
    \/ CallExtractRun
    \/ CallExtractCloud
    \/ CallExtract20
    \/ CallDeepseek

SpecExtract == InitExtract /\ [][NextExtract]_vars

\* ------------------------------------------------------------------------
\* The literature review app: script runs of taily_streamlit.py
\* ------------------------------------------------------------------------
\* nothing of the other apps is running
OtherAppsIdle ==
    /\ variant = "none"
    /\ uploaded_files = << >>
    /\ api_key = TRUE
    /\ translate_abstract = FALSE
    /\ IdleBatch
    /\ IdleExtract

InitReview ==
    /\ run_review = FALSE
    /\ tavily_api_key \in BOOLEAN
    /\ deepseek_api_key \in BOOLEAN
    /\ topic = FALSE
    /\ max_results = 10
    /\ IdleScript
    /\ OtherAppsIdle

\* the user clicks one of the two buttons or changes one other widget (a
\* text input becomes empty or non-empty, or keeps being what it was, as
\* does the slider), and Streamlit runs the script from the top
Interact ==
    /\ tpc = "idle"
    /\ \E t \in {"start", "custom", "widget"},
          w \in {"tavily", "deepseek", "topic", "other"} :
         /\ trigger' = t
         /\ tavily_api_key' =
              IF t = "widget" /\ w = "tavily"
              THEN ~tavily_api_key ELSE tavily_api_key
         /\ deepseek_api_key' =
              IF t = "widget" /\ w = "deepseek"
              THEN ~deepseek_api_key ELSE deepseek_api_key
         /\ topic' = IF t = "widget" /\ w = "topic" THEN ~topic ELSE topic
    /\ tpc' = "tab1"
    /\ tavily_response' = NoResponse
    /\ search_results' = << >>
    /\ searches' = 0
    /\ llm_requests' = 0
    /\ UNCHANGED <<run_review, max_results>>
    /\ UNCHANGED <<xvars, bvars>>

\* a plausible slip: only the Tavily key is asked for
KeysMissingTavilyOnly(tavily, deepseek) == ~tavily

\* lines 412 and 479: not tavily_api_key or not deepseek_api_key
KeysMissing(tavily, deepseek) == ~tavily \/ ~deepseek

\* lines 407-428: the start button, the flag, the checks and the search
ReviewTab ==
    /\ tpc = "tab1"
    /\ LET flag == run_review \/ trigger = "start"
       IN  /\ run_review' = flag
           /\ IF ~flag
              THEN /\ tpc' = "tab2"
                   /\ UNCHANGED <<tavily_response, search_results, searches>>
              ELSE IF KeysMissing(tavily_api_key, deepseek_api_key) \/ ~topic
              THEN /\ tpc' = "idle"
                   /\ UNCHANGED <<tavily_response, search_results, searches>>
              ELSE \E resp \in ResponsesUpTo(MaxReviewHits) :
                     /\ tavily_response' = resp
                     /\ search_results' = SearchWithTavily(resp, max_results)
                     /\ searches' = searches + 1
                     /\ tpc' = IF SearchWithTavily(resp, max_results) = << >>
                               THEN "idle" ELSE "experts"
    /\ UNCHANGED <<tavily_api_key, deepseek_api_key, topic, max_results,
                   trigger, llm_requests>>
    /\ UNCHANGED <<xvars, bvars>>

\* lines 431-436: process_with_multiple_experts
Experts ==
    /\ tpc = "experts"
    /\ llm_requests' = llm_requests + ExpertRequests
    /\ tpc' = "format"
    /\ UNCHANGED <<run_review, tavily_api_key, deepseek_api_key, topic,
                   max_results, trigger, tavily_response, search_results,
                   searches>>
    /\ UNCHANGED <<xvars, bvars>>

\* lines 439-447: format_academic_output
Format ==
    /\ tpc = "format"
    /\ llm_requests' = llm_requests + FormatRequests(expert_prompts)
    /\ tpc' = "tab2"
    /\ UNCHANGED <<run_review, tavily_api_key, deepseek_api_key, topic,
                   max_results, trigger, tavily_response, search_results,
                   searches>>
    /\ UNCHANGED <<xvars, bvars>>

\* lines 478-507: the custom-prompt button, the checks, the search and the
\* one completion
CustomTab ==
    /\ tpc = "tab2"
    /\ tpc' = "idle"
    /\ IF trigger # "custom"
          \/ KeysMissing(tavily_api_key, deepseek_api_key) \/ ~topic
       THEN UNCHANGED <<tavily_response, search_results, searches,
                        llm_requests>>
       ELSE \E resp \in ResponsesUpTo(MaxReviewHits) :
              /\ tavily_response' = resp
              /\ search_results' = SearchWithTavily(resp, max_results)
              /\ searches' = searches + 1
              /\ llm_requests' =
                   IF SearchWithTavily(resp, max_results) = << >>
                   THEN llm_requests ELSE llm_requests + 1
    /\ UNCHANGED <<run_review, tavily_api_key, deepseek_api_key, topic,
                   max_results, trigger>>
    /\ UNCHANGED <<xvars, bvars>>

NextReview ==
    \/ Interact
    \/ ReviewTab
    \/ Experts
    \/ Format
    \/ CustomTab

SpecReview == InitReview /\ [][NextReview]_vars

\* ------------------------------------------------------------------------
\* Search harness: one response of the search service, one call of
\* search_with_tavily
\* ------------------------------------------------------------------------
InitSearch ==
    /\ tavily_response \in ResponsesUpTo(MaxHits)
    /\ max_results \in 1 .. MaxHits
    /\ run_review = FALSE
    /\ tavily_api_key = TRUE
    /\ deepseek_api_key = TRUE
    /\ topic = TRUE
    /\ trigger = "none"
    /\ tpc = "idle"
    /\ search_results = << >>
    /\ searches = 0
    /\ llm_requests = 0
    /\ OtherAppsIdle

CallSearch ==
    /\ tpc = "idle" /\ trigger = "none" /\ searches = 0
    /\ tavily_response # NoResponse
    /\ search_results' = SearchWithTavily(tavily_response, max_results)
    /\ searches' = 1
    /\ UNCHANGED <<run_review, tavily_api_key, deepseek_api_key, topic,
                   max_results, trigger, tpc, tavily_response, llm_requests>>
    /\ UNCHANGED <<xvars, bvars>>

NextSearch == CallSearch

SpecSearch == InitSearch /\ [][NextSearch]_vars

\* ------------------------------------------------------------------------
\* streamlit_mianshi.py: get_structured_answer and the button handler
\* ------------------------------------------------------------------------
\* lines 146-147: the two section separators; "guan", "jian", "dian" and
\* "can", "kao", "da", "an" stand for the separators' CJK characters
points_separator ==
    <<"-", "-", "-", "guan", "jian", "yao", "dian", "-", "-", "-">>
answer_separator ==
    <<"-", "-", "-", "can", "kao", "da", "an", "-", "-", "-">>

AnswerPieces ==
    { start_tag, end_tag, points_separator, answer_separator, ProseLine }

RECURSIVE AnswerTextsUpTo(_)
AnswerTextsUpTo(n) ==
    IF n = 0 THEN { << >> }
    ELSE LET prev == AnswerTextsUpTo(n - 1)
         IN  prev \cup { t \o q : t \in prev, q \in AnswerPieces }

\* lines 158-159, 161-165: the dict returned when nothing was obtained
NoAnswer == [ answer |-> None, mermaid_code |-> None, key_points |-> None ]

\* a plausible slip: the answer separator alone is enough
SectionsFoundAnswerOnly(points_start, answer_start) == answer_start # -1

\* line 152: if points_start != -1 and answer_start != -1
SectionsFound(points_start, answer_start) ==
    points_start # -1 /\ answer_start # -1

\* lines 127-159: the parsing of the reply
ParseAnswer(content) ==
    LET message_content == Strip(content)
        start_index == Find(message_content, start_tag, 0)
        end_index   == Find(message_content, end_tag,
                            start_index + Len(start_tag))
        points_start == Find(message_content, points_separator, 0)
        answer_start == Find(message_content, answer_separator, 0)
        found == SectionsFound(points_start, answer_start)
    IN  [ answer |->
            IF found
            THEN Strip(SliceFrom(message_content,
                                 answer_start + Len(answer_separator)))
            ELSE None,
          mermaid_code |->
            IF start_index # -1 /\ end_index # -1
            THEN Strip(Slice(message_content,
                             start_index + Len(start_tag), end_index))
            ELSE None,
          key_points |->
            IF found
            THEN Strip(Slice(message_content,
                             points_start + Len(points_separator),
                             answer_start))
            ELSE None ]

\* lines 59-165: get_structured_answer; every failure of the exchange is
\* caught by the one except clause or by the test for "choices"
GetStructuredAnswer(key, resp, content) ==
    IF ~key \/ resp # "reply" THEN NoAnswer ELSE ParseAnswer(content)

\* lines 202-217: the sections put on the page, in order
ShownSections(result) ==
    IF Truthy(result.answer)
    THEN <<"answer">>
         \o (IF Truthy(result.key_points) THEN <<"key_points">> ELSE << >>)
         \o (IF Truthy(result.mermaid_code) THEN <<"mermaid_code">>
             ELSE << >>)
    ELSE << >>

InitAnswer ==
    /\ \/ response = "reply" /\ raw_text \in AnswerTextsUpTo(MaxAnswerPieces)
       \/ response \in ApiFailures /\ raw_text = << >>
    /\ api_key \in BOOLEAN
    /\ translate_abstract = FALSE
    /\ extractor = "none"
    /\ extracted = NoResult
    /\ escaped = FALSE
    /\ displayed = None
    /\ variant = "none"
    /\ uploaded_files = << >>
    /\ IdleBatch
    /\ IdleReview

\* lines 198-219: the button is clicked with a question in the text area
GenerateAnswer ==
    /\ extractor = "none"
    /\ extractor' = "mianshi"
    /\ extracted' = GetStructuredAnswer(api_key, response, raw_text)
    /\ displayed' =
         ShownSections(GetStructuredAnswer(api_key, response, raw_text))
    /\ UNCHANGED <<raw_text, translate_abstract, response, escaped>>
    /\ UNCHANGED <<bvars, tvars>>

NextAnswer == GenerateAnswer

SpecAnswer == InitAnswer /\ [][NextAnswer]_vars

\* ========================================================================
\* Properties of the batch specification (Spec)
\* ========================================================================
InCall == pc \in {"render", "mmdc", "regen"}

\* what is left of one render_mermaid_to_image call: it decreases with
\* every step of the call
CallMeasure ==
    3 * (max_retries - retry_count)
      + (IF pc = "mmdc" THEN -1 ELSE IF pc = "regen" THEN 1 ELSE 0)

\* C1: render_mermaid_to_image invokes the renderer at most max_retries
\* times, and every step of the call that does not return decreases a
\* measure that never goes below zero, so the call returns.
C1_RenderTerminates ==
    /\ [](render_calls <= max_retries /\ (InCall => CallMeasure >= 0))
    /\ [][InCall /\ InCall' => CallMeasure' < CallMeasure]_vars

\* the renderer has failed max_retries times and the call has returned failure
C1_Witness ==
    /\ variant = "run"
    /\ render_calls = max_retries
    /\ ~InCall
    /\ Len(all_results) = processed_files
    /\ all_results # << >>
    /\ ~all_results[Len(all_results)].success
    /\ all_results[Len(all_results)].error = Err("item_errors")

\* every item result the handler holds
RECURSIVE SeqRange(_)
SeqRange(q) == IF q = << >> THEN {} ELSE {Head(q)} \cup SeqRange(Tail(q))

ItemResults ==
    SeqRange(results) \cup SeqRange(all_results)
      \cup { task_result[i] : i \in DOMAIN task_result }

C3_ResultsInInputOrder ==
    pc = "done" =>
        /\ Len(results) = Len(uploaded_files)
        /\ \A i \in 1 .. Len(uploaded_files) :
              /\ results[i].filename = uploaded_files[i].name
              /\ (variant = "v20" => results[i] = task_result[i])

\* two coroutines finished in the opposite order of their files
C3_Witness ==
    /\ variant = "v20" /\ pc = "done"
    /\ Len(uploaded_files) >= 2
    /\ uploaded_files[1].name # uploaded_files[2].name
    /\ \E k \in 1 .. Len(completion_order) - 1 :
          completion_order[k] > completion_order[k + 1]

\* the results the pipeline of file f can end with, whatever the other
\* files of the batch are
OwnOutcomes(f) ==
    IF variant = "run"
    THEN IF ~ReadRun(f).ok THEN { FailResult(f, ReadRun(f).error) }
         ELSE { FailResult(f, Err("no_code")) } \cup
              { [ filename |-> f.name, success |-> ok, mmd_path |-> m,
                  png_path |-> g, summary_path |-> t, error |-> e,
                  mermaid_code |-> c, abstract |-> a ] :
                  ok \in BOOLEAN,
                  m \in {None, MmdPath(Stem(f))},
                  g \in {None, PngPath(Stem(f))},
                  t \in {None, SummaryPath(Stem(f))},
                  e \in {None, Err("item_errors")},
                  c \in {None} \cup { CompletionRun(x, translate_abstract).mermaid_code : x \in Replies },
                  a \in {None} \cup { CompletionRun(x, translate_abstract).abstract : x \in Replies } }
    ELSE IF ~Read20(f).ok THEN { FailResult(f, Read20(f).error) }
         ELSE { FailResult(f, Err("no_code")), FailResult(f, Err("exception")),
                FailResult(f, Err("no_key")) } \cup
              { [ filename |-> f.name, success |-> TRUE, mmd_path |-> MmdPath(Stem(f)),
                  png_path |-> None, summary_path |-> t, error |-> None,
                  mermaid_code |-> c, abstract |-> a ] :
                  t \in {None, SummaryPath(Stem(f))},
                  c \in { Completion20(x, translate_abstract).mermaid_code : x \in Replies },
                  a \in { Completion20(x, translate_abstract).abstract : x \in Replies } }

\* C4: whatever items of the batch fail, every item is processed and gets a
\* result of its own: a file that cannot be read gets the failure of its
\* reading, every other file gets an outcome of its own pipeline.
C4_FailuresAreIsolated ==
    pc = "done" =>
        \A j \in 1 .. Len(uploaded_files) :
            /\ j <= Len(results)
            /\ results[j] \in OwnOutcomes(uploaded_files[j])

\* a failed item is followed by an item that succeeded
C4_Witness ==
    /\ pc = "done"
    /\ \E i, j \in 1 .. Len(results) :
          /\ i < j
          /\ ~results[i].success
          /\ results[i].error \in {Err("txt_encoding"), Err("pdf_read"),
                                   Err("empty"), Err("no_code"),
                                   Err("item_errors"), Err("exception")}
          /\ results[j].success

NoneSucceeded == \A i \in 1 .. Len(results) : ~results[i].success

\* C5: when no item succeeds, the archive is None after the batch and the
\* report lists every uploaded file with success = FALSE.
C5_NoSuccessNoArchive ==
    pc = "done" /\ NoneSucceeded =>
        /\ zip_buffer = None
        /\ Len(results) = Len(uploaded_files)
        /\ \A i \in 1 .. Len(uploaded_files) :
              /\ results[i].filename = uploaded_files[i].name
              /\ results[i].success = FALSE

\* no item succeeded although a diagram source file was saved
C5_Witness ==
    /\ pc = "done" /\ NoneSucceeded
    /\ Len(results) >= 2
    /\ \E i \in 1 .. Len(results) : results[i].mmd_path # None
    /\ zip_buffer = None

InArchive(path) ==
    zip_buffer # None /\ \E k \in 1 .. Len(zip_buffer) : zip_buffer[k] = path

\* C6: when an item succeeds, an archive is produced and holds, for every
\* succeeded item, <stem>.mmd, <stem>.png when an image was rendered and
\* <stem>.summary.txt when a summary was saved.
C6_ArchiveHoldsSuccesses ==
    pc = "done" /\ ~NoneSucceeded =>
        /\ zip_buffer # None
        /\ \A i \in 1 .. Len(results) :
              results[i].success =>
                 LET stem == Stem(uploaded_files[i])
                 IN  /\ InArchive(MmdPath(stem))
                     /\ (results[i].png_path # None => InArchive(PngPath(stem)))
                     /\ (results[i].summary_path # None
                           => InArchive(SummaryPath(stem)))

\* an item with image and summary succeeded next to an item that failed
C6_Witness ==
    /\ variant = "run" /\ pc = "done"
    /\ \E i, j \in 1 .. Len(results) :
          /\ results[i].success
          /\ results[i].png_path # None
          /\ results[i].summary_path # None
          /\ ~results[j].success
    /\ zip_buffer # None

\* the step in which render_mermaid_to_image returns, and what it returns
Returns == InCall /\ ~InCall'
ReturnsSuccess ==
    /\ Returns
    /\ all_results'[Len(all_results')].png_path # None

\* the renderer ran in this step, exited with code 0, and the output file
\* exists with a size above zero
AttemptMeetsCriterion ==
    /\ pc = "mmdc"
    /\ process'.completed
    /\ process'.returncode = 0
    /\ PngPath(Stem(CurrentFile)) \in fs'
    /\ PngPath(Stem(CurrentFile)) \notin empty_files'

\* C13: render_mermaid_to_image returns success exactly when a render
\* attempt had the renderer exit with code 0 and the output file exist with
\* a size above zero: such an attempt makes the call return success at once,
\* and every other return of the call is a failure.
C13_SuccessCriterion ==
    [][ /\ AttemptMeetsCriterion => ReturnsSuccess
        /\ Returns => (ReturnsSuccess <=> AttemptMeetsCriterion) ]_vars

\* the call has returned success after its second attempt
C13_Witness ==
    /\ variant = "run" /\ ~InCall
    /\ processed_files >= 1 /\ Len(all_results) = processed_files
    /\ all_results[processed_files].png_path # None
    /\ render_calls = max_retries
    /\ process.completed /\ process.returncode = 0
    /\ PngPath(Stem(CurrentFile)) \in fs \ empty_files

\* the renderer ran in this step and its outcome misses the criterion
AttemptFails ==
    /\ pc = "mmdc"
    /\ process'.completed
    /\ ~AttemptMeetsCriterion

ReturnsFailure == Returns /\ ~ReturnsSuccess

\* attempts remain under the cap and the original text is there
MayRetry == original_text /\ retry_count < max_retries - 1

\* the hint is the error of the attempt that just failed: its error output
\* when it wrote one, its error message otherwise
CarriesRenderError(hint, proc, message) ==
    /\ message # None
    /\ hint = IF proc.stderr # << >> THEN <<"cli_error", proc.stderr>>
              ELSE message

\* C14: after a failed render attempt with attempts left and the original
\* text at hand, a new completion is requested whose correction hint is the
\* renderer's error, and the next attempt renders the diagram source
\* extracted from that completion; when the completion yields no diagram
\* source, or no attempt is left, the call fails without another attempt.
C14_RetryWithHint ==
    [][ /\ AttemptFails /\ MayRetry =>
              /\ pc' = "regen"
              /\ error_message' # None
        /\ AttemptFails /\ ~MayRetry => ReturnsFailure
        /\ pc = "regen" =>
              /\ api_calls' = api_calls + 1
              /\ CarriesRenderError(previous_error', process, error_message)
              /\ render_calls' = render_calls
              /\ \/ /\ pc' = "render"
                    /\ reply' \in Replies
                    /\ Truthy(current_mermaid_code')
                    /\ current_mermaid_code' =
                         ExtractRun(reply', translate_abstract).mermaid_code
                 \/ ReturnsFailure
        /\ pc = "render" /\ pc' = "mmdc" =>
              temp_code' = current_mermaid_code ]_vars

\* the second attempt is about to render a regenerated diagram source that
\* differs from the first one
C14_Witness ==
    /\ pc = "mmdc" /\ retry_count = 1
    /\ previous_error # None
    /\ temp_code = current_mermaid_code
    /\ temp_code # item.mermaid_code

\* the result record of the item whose render call has just returned
ItemOutcome == all_results[processed_files]

\* the renderer ran max_retries times for the current item, the last run
\* missed the criterion, and the call has returned
BothAttemptsFailed ==
    /\ variant = "run" /\ ~InCall
    /\ processed_files >= 1 /\ Len(all_results) = processed_files
    /\ render_calls = max_retries
    /\ process.completed
    /\ ItemOutcome.png_path = None

\* the message of lines 309-317 for the latest renderer run
LatestRenderError ==
    LET png == PngPath(Stem(CurrentFile))
    IN  <<"render_failed", <<process.returncode>>, process.stderr,
          IF png \notin fs THEN "not_generated"
          ELSE IF png \in empty_files THEN "size_0" ELSE "">>

TempFiles == { path \in fs : path[1] = "temp" }

\* C16: while the renderer runs, the one temporary file that exists is the
\* file of the current attempt, holding the diagram source to render; at
\* every other moment, so after every attempt and after the call has
\* returned, whichever way the attempt ended, no temporary file exists.
C16_TempFileRemoved ==
    /\ pc = "mmdc" =>
          /\ TempFiles = { TempPath(Stem(CurrentFile), retry_count) }
          /\ temp_code = current_mermaid_code
    /\ pc # "mmdc" => TempFiles = {}

\* the first attempt has ended in a render failure and the call goes on
C16_Witness ==
    /\ pc = "regen"
    /\ render_calls = 1
    /\ process.completed
    /\ TempFiles = {}

\* C17: a missing API key is checked once, before any network call, and is
\* fatal to the whole batch: without a key no completion request is ever
\* sent, and once the missing key has been reported it is not reported
\* again and no item is processed any further.
C17_MissingKeyIsFatal ==
    [][ ~api_key =>
          /\ api_calls' = 0
          /\ key_errors >= 1 =>
                /\ key_errors' = key_errors
                /\ processed_files' = processed_files
                /\ task_pc' = task_pc ]_vars

\* the output files that the item of result r was recorded to have written
WrittenPaths(r) == { r.mmd_path, r.png_path, r.summary_path } \ { None }

\* the per-item results of the running batch, by position in the upload
BatchResults == IF variant = "v20" THEN task_result ELSE all_results

\* C19: within one batch, two distinct input items never write the same
\* output file: the diagram file, the image and the summary file of one
\* item are files of no other item.
C19_DistinctOutputPaths ==
    \A i, j \in 1 .. Len(BatchResults) :
        i # j => WrittenPaths(BatchResults[i])
                   \cap WrittenPaths(BatchResults[j]) = {}

\* the files that the archive names
ArchiveEntries == IF zip_buffer = None THEN {} ELSE SeqRange(zip_buffer)

\* C20: once a batch has started, the stored report and the stored archive
\* hold nothing of the earlier batch: both are empty while the items are
\* processed, and what is stored at the end names only files of this batch.
C20_EarlierBatchCleared ==
    pc # "idle" =>
        /\ \A i \in 1 .. Len(results) :
              results[i].filename # EarlierFile.name
        /\ \A path \in ArchiveEntries : path[2] # Stem(EarlierFile)
        /\ pc # "done" => results = << >> /\ zip_buffer = None

\* a batch that followed an earlier one has stored its own report and
\* archive, and the earlier batch's files are still in the directory
C20_Witness ==
    /\ pc = "done"
    /\ EarlierFiles \subseteq fs
    /\ results # << >>
    /\ zip_buffer # None
    /\ \A i \in 1 .. Len(results) : results[i].filename # EarlierFile.name

\* C25: for one item of streamlit_run.py at most max_retries completion
\* requests are sent: the one of the batch loop and, inside
\* render_mermaid_to_image, one per regeneration; a regeneration request is
\* sent only after a renderer run that failed, with an attempt left, and
\* never when the original text is not at hand.
C25_RequestsPerItem ==
    [][ /\ api_calls' <= max_retries
        /\ api_calls' \in { api_calls, api_calls + 1 }
        /\ api_calls' # api_calls =>
              \/ pc = "item" /\ api_calls = 0
              \/ /\ pc = "regen"
                 /\ original_text
                 /\ render_calls >= 1 /\ render_calls < max_retries
                 /\ process.completed
                 /\ error_message # None
        /\ InCall /\ ~original_text => api_calls' = api_calls ]_vars

\* the item has used both of its requests
C25_Witness ==
    /\ pc = "render" /\ retry_count = 1
    /\ api_calls = max_retries
    /\ original_text
    /\ previous_error # None

\* C24: for every succeeded item of streamlit_run.py, the diagram source
\* saved as <stem>.mmd and reported as the item's mermaid_code is the source
\* the renderer read when it produced the item's image, also when that was
\* the attempt that followed a regeneration.
C24_SavedSourceIsRendered ==
    [][ ReturnsSuccess /\ all_results'[Len(all_results')].success =>
          /\ MmdPath(Stem(CurrentFile)) \in fs
          /\ item.mermaid_code = temp_code
          /\ all_results'[Len(all_results')].mermaid_code = temp_code ]_vars

\* the items of the report that were recorded to have written path, and the
\* one of them that wrote it last
Writers(path) == { i \in 1 .. Len(results) : path \in WrittenPaths(results[i]) }
LastWriter(path) == CHOOSE i \in Writers(path) : \A j \in Writers(path) : j <= i

\* C26: an item of streamlit_run.py that is not fully successful contributes
\* no file to the archive: a file that such an item saved (its .mmd, its
\* .png, its .summary.txt) is not in the archive.
C26_FailedItemNotArchived ==
    variant = "run" /\ pc = "done" =>
        \A path \in ArchiveEntries :
            Writers(path) # {} /\ results[LastWriter(path)].success

\* ========================================================================
\* Properties of the extraction harness (SpecExtract)
\* ========================================================================

\* pat occurs in t at 0-based position i
OccursAt(t, pat, i) ==
    /\ i >= 0
    /\ i + Len(pat) <= Len(t)
    /\ \A k \in 1 .. Len(pat) : t[i + k] = pat[k]

OccursFrom(t, pat, from) == \E i \in from .. Len(t) : OccursAt(t, pat, i)

FirstFrom(t, pat, from) ==
    CHOOSE i \in from .. Len(t) :
        /\ OccursAt(t, pat, i)
        /\ \A j \in from .. i - 1 : ~OccursAt(t, pat, j)

\* t without its leading and trailing whitespace
Trimmed(t) ==
    LET keep == { i \in 1 .. Len(t) : t[i] \notin Whitespace }
    IN  IF keep = {} THEN << >>
        ELSE SubSeq(t, CHOOSE i \in keep : \A j \in keep : i <= j,
                       CHOOSE i \in keep : \A j \in keep : i >= j)

\* the opening marker, and a closing marker after it
OpenAt(t)   == FirstFrom(t, start_tag, 0)
HasBlock(t) ==
    /\ OccursFrom(t, start_tag, 0)
    /\ OccursFrom(t, end_tag, OpenAt(t) + Len(start_tag))
CloseAt(t)  == FirstFrom(t, end_tag, OpenAt(t) + Len(start_tag))

\* the text strictly between the two markers
Interior(t) == SubSeq(t, OpenAt(t) + Len(start_tag) + 1, CloseAt(t))

\* the text after the end of the first separator at or after the closing marker
AfterSeparator(t) ==
    SubSeq(t, FirstFrom(t, separator, CloseAt(t)) + Len(separator) + 1, Len(t))

HasFallbackToken(t) == OccursFrom(t, GraphTD, 0) \/ OccursFrom(t, GraphLR, 0)

Called == extractor \in {"run", "cloud", "v20"}

\* C7 as stated: a reply with a fenced block yields exactly the trimmed
\* interior of the block, in every variant.
C7_Original ==
    Called /\ raw_text # << >> /\ HasBlock(raw_text) =>
        extracted.mermaid_code = Trimmed(Interior(raw_text))

\* C7: a reply with a fenced block yields exactly the trimmed interior of the
\* block, whatever surrounds the block; streamlit_run.py and
\* streamlit_cloud.py yield no diagram source when that interior is empty.
C7_TrimmedInterior ==
    Called /\ raw_text # << >> /\ HasBlock(raw_text) =>
        IF extractor \in {"run", "cloud"} /\ Trimmed(Interior(raw_text)) = << >>
        THEN extracted.mermaid_code = None
        ELSE extracted.mermaid_code = Trimmed(Interior(raw_text))

\* a block with whitespace around its interior, text before it and after it
C7_Witness ==
    /\ Called /\ HasBlock(raw_text)
    /\ OpenAt(raw_text) > 0
    /\ CloseAt(raw_text) + Len(end_tag) < Len(raw_text)
    /\ Interior(raw_text) # Trimmed(Interior(raw_text))
    /\ extracted.mermaid_code = Trimmed(Interior(raw_text))
    /\ extracted.mermaid_code # << >>

\* C8: a reply without a fenced block and without a fallback token yields no
\* diagram source; the extractor returns its failure value.
C8_NoBlockNoSource ==
    Called /\ ~HasBlock(raw_text) /\ ~HasFallbackToken(raw_text) =>
        /\ extracted.mermaid_code = None
        /\ (extractor = "v20" => extracted.success = FALSE)
        /\ (extractor \in {"run", "cloud"} => extracted = NoResult)

\* a closing marker without an opening marker, far enough into the text to
\* be found by the search that starts after the absent opening marker
C8_Witness ==
    /\ extractor = "run"
    /\ ~OccursFrom(raw_text, start_tag, 0)
    /\ OccursFrom(Trimmed(raw_text), end_tag, Len(start_tag) - 1)
    /\ ~HasFallbackToken(raw_text)
    /\ extracted.mermaid_code = None

\* what the called extractor returns for the same reply without a summary
\* request
SameCallWithoutSummary ==
    IF extractor = "run" THEN ExtractRun(raw_text, FALSE)
    ELSE IF extractor = "cloud" THEN ExtractCloud(raw_text, FALSE)
    ELSE Extract20(raw_text, FALSE)

\* C9 as stated: a requested summary whose separator is present is returned
\* even when no diagram source was extracted.
C9_Original ==
    Called /\ translate_abstract /\ OccursFrom(raw_text, separator, 0) =>
        extracted.abstract # None

\* C9: streamlit_2.0.py returns a requested summary whose separator is
\* present even when no diagram source was extracted; streamlit_run.py and
\* streamlit_cloud.py return a summary only together with a diagram source;
\* in every variant a missing separator leaves the diagram source what it is
\* without a summary request.
C9_SummaryAndDiagram ==
    /\ extractor = "v20" /\ translate_abstract
         /\ OccursFrom(raw_text, separator, 0)
         => extracted.abstract # None
    /\ extractor \in {"run", "cloud"} /\ extracted.mermaid_code = None
         => extracted.abstract = None
    /\ Called /\ translate_abstract /\ ~OccursFrom(raw_text, separator, 0)
         => extracted.mermaid_code = SameCallWithoutSummary.mermaid_code

\* streamlit_2.0.py returns a summary without a diagram source
C9_Witness ==
    /\ extractor = "v20" /\ translate_abstract
    /\ OccursFrom(raw_text, separator, 0)
    /\ extracted.mermaid_code = None
    /\ extracted.abstract # None

\* C10: with a summary requested and the separator after a fenced block, the
\* summary is exactly the trimmed text after the end of the separator, in
\* streamlit_run.py, streamlit_cloud.py and streamlit_2.0.py.
C10_SummaryAfterSeparator ==
    /\ Called /\ translate_abstract
    /\ HasBlock(raw_text)
    /\ Trimmed(Interior(raw_text)) # << >>
    /\ OccursFrom(raw_text, separator, CloseAt(raw_text))
    => extracted.abstract = Trimmed(AfterSeparator(raw_text))

\* the text after the closing marker of the block
AfterBlock(t) == SubSeq(t, CloseAt(t) + Len(end_tag) + 1, Len(t))

\* a summary is requested, a block with a diagram in it is found and the
\* separator is nowhere in the reply
SummaryWithoutSeparator ==
    /\ Called /\ translate_abstract
    /\ HasBlock(raw_text)
    /\ Trimmed(Interior(raw_text)) # << >>
    /\ ~OccursFrom(raw_text, separator, 0)

OpenWithoutClose(t) ==
    /\ OccursFrom(t, start_tag, 0)
    /\ ~OccursFrom(t, end_tag, OpenAt(t) + Len(start_tag))

\* some line of t begins, after optional blanks, with a diagram-start token
LineStartsWithToken(t) ==
    \E i \in 0 .. Len(t) :
        /\ OccursAt(t, GraphTD, i) \/ OccursAt(t, GraphLR, i)
        /\ \E k \in 0 .. i :
              /\ k = 0 \/ t[k] = "\n"
              /\ \A j \in k + 1 .. i : t[j] \in Whitespace

\* C12 as stated: an opening marker without a closing marker after it
\* yields no diagram source, in every variant.
C12_Original ==
    Called /\ OpenWithoutClose(raw_text) => extracted.mermaid_code = None

\* C12: an opening marker without a closing marker after it yields no
\* diagram source in streamlit_2.0.py and streamlit_cloud.py; in
\* streamlit_run.py the fallback scan then yields one exactly when a line
\* of the reply begins with a diagram-start token.
C12_OpenWithoutClose ==
    Called /\ OpenWithoutClose(raw_text) =>
        /\ extractor \in {"v20", "cloud"} => extracted.mermaid_code = None
        /\ extractor = "v20" => ~extracted.success
        /\ extractor = "run" =>
             (extracted.mermaid_code # None <=> LineStartsWithToken(raw_text))

\* streamlit_run.py returns the lines of an unclosed block from the token on
C12_Witness ==
    /\ extractor = "run"
    /\ OpenWithoutClose(raw_text)
    /\ LineStartsWithToken(raw_text)
    /\ Truthy(extracted.mermaid_code)

\* the HTTP exchange did not produce a usable reply
ExchangeFailed == extractor # "none" /\ response # "reply"

\* C18: no completion client lets an exception escape: on a timeout, a
\* transport error, a non-2xx status or a malformed body it returns its
\* failure value, which holds no diagram source and differs from every
\* successful completion.
C18_NoExceptionEscapes ==
    /\ extractor # "none" => ~escaped
    /\ ExchangeFailed /\ extractor \in {"run", "cloud"} =>
          extracted = NoResult
    /\ ExchangeFailed /\ extractor = "v20" =>
          extracted.mermaid_code = None /\ ~extracted.success
    /\ ExchangeFailed /\ extractor = "taily" =>
          StartsWith(extracted.text, <<"chuli", "cuowu", ":">>)

\* a body whose choice holds no content raises a KeyError, which only the
\* last except clause of streamlit_run.py catches
C18_Witness ==
    /\ extractor = "run"
    /\ response = "NoContent"
    /\ ~escaped
    /\ extracted = NoResult

\* neither a complete fenced block nor nothing to fall back on
FallbackCase(t) == ~HasBlock(t) /\ LineStartsWithToken(t)

TokenLine(l) ==
    StartsWith(Trimmed(l), GraphTD) \/ StartsWith(Trimmed(l), GraphLR)

SeparatorLine(l) == StartsWith(Trimmed(l), separator)

\* neither blank nor the line of a fence
DiagramLine(l) == Trimmed(l) # << >> /\ ~StartsWith(Trimmed(l), end_tag)

\* the lines of t from the first one that begins with a diagram-start token
\* up to the end, or up to the first later line that begins with the
\* separator when stop_at_separator
RunOfLines(t, stop_at_separator) ==
    LET ls    == SplitLines(t)
        first == CHOOSE k \in 1 .. Len(ls) :
                    /\ TokenLine(ls[k])
                    /\ \A j \in 1 .. k - 1 : ~TokenLine(ls[j])
        stops == { k \in first .. Len(ls) :
                     stop_at_separator /\ SeparatorLine(ls[k]) }
        last  == IF stops = {} THEN Len(ls)
                 ELSE (CHOOSE k \in stops : \A j \in stops : k <= j) - 1
    IN  SubSeq(ls, first, last)

\* C22 as stated: the fallback yields the contiguous run of lines from the
\* token line onward, up to the separator line when a summary is requested.
C22_Original ==
    extractor = "run" /\ FallbackCase(raw_text) =>
        extracted.mermaid_code =
            Trimmed(JoinLines(RunOfLines(raw_text, translate_abstract)))

\* C22: without a complete fenced block, when a line of the reply begins
\* with graph TD or graph LR, the diagram source of streamlit_run.py is made
\* of the lines from that line onward, up to the first line that begins
\* with the separator when a summary is requested, leaving out the blank
\* lines and the lines that begin with a fence marker.
C22_FallbackRun ==
    extractor = "run" /\ FallbackCase(raw_text) =>
        extracted.mermaid_code =
            Trimmed(JoinLines(SelectSeq(
                RunOfLines(raw_text, translate_abstract), DiagramLine)))

\* a fallback run that is cut at the separator line and has lost a fence line
C22_Witness ==
    /\ extractor = "run"
    /\ translate_abstract
    /\ FallbackCase(raw_text)
    /\ \E k \in 1 .. Len(SplitLines(raw_text)) :
          SeparatorLine(SplitLines(raw_text)[k])
    /\ RunOfLines(raw_text, TRUE) # RunOfLines(raw_text, FALSE)
    /\ SelectSeq(RunOfLines(raw_text, TRUE), DiagramLine)
          # RunOfLines(raw_text, TRUE)
    /\ Len(SelectSeq(RunOfLines(raw_text, TRUE), DiagramLine)) >= 2
    /\ Truthy(extracted.mermaid_code)

\* a reply with text but without a block, a token or the separator
NothingToExtract(t) ==
    /\ Trimmed(t) # << >>
    /\ ~HasBlock(t)
    /\ ~HasFallbackToken(t)
    /\ ~OccursFrom(t, separator, 0)

\* C23: a non-empty reply of streamlit_run.py without a block, a token or
\* the separator fails extraction and its text is put on the page, whether
\* or not a summary was requested.
C23_RawTextShown ==
    extractor = "run" /\ NothingToExtract(raw_text) =>
        /\ extracted = NoResult
        /\ displayed = Trimmed(raw_text)

\* ========================================================================
\* Properties of the literature review app (SpecReview, SpecSearch)
\* ========================================================================

\* the review pipeline of tab 1 has found results and run to its end
ReviewDone == tpc = "tab2" /\ search_results # << >>

\* C21 as stated: one review run that finds search results issues exactly
\* four language-model requests.
C21_Original == ReviewDone => llm_requests = 4

\* C21: one review run of taily_streamlit.py that finds search results
\* issues exactly seven language-model requests: four for the experts, and
\* three more while the output is formatted.
C21_SevenRequests ==
    /\ tpc = "experts" => llm_requests = 0
    /\ tpc = "format" => llm_requests = 4
    /\ ReviewDone => llm_requests = 7

\* a review run that found a result has come to its end
C21_Witness ==
    /\ ReviewDone
    /\ trigger = "start"
    /\ Len(search_results) >= 1
    /\ llm_requests = 7

\* the review pipeline of tab 1 starts in this step: its search is made
PipelineStarts == tpc = "tab1" /\ searches' = searches + 1

\* C27: the review pipeline of taily_streamlit.py runs only in a script run
\* started by a click on the start button; a script run started by another
\* widget does not start the pipeline again.
C27_OnlyOnStartClick ==
    [][ PipelineStarts => trigger = "start" ]_vars

\* a search was made in this step and returned nothing
SearchCameBackEmpty == searches' = searches + 1 /\ search_results' = << >>

OfConfiguredDomain(url) ==
    \E i \in 1 .. Len(url) : url[i] \in professional_domains

\* C29: search_with_tavily returns a list in which every entry's URL
\* contains one of the configured domains, the scores never increase, and
\* the length is at most max_results; when the search call raises it
\* returns the empty list.
C29_SearchResults ==
    searches = 1 /\ trigger = "none" =>
        /\ \A i \in 1 .. Len(search_results) :
              OfConfiguredDomain(search_results[i].url)
        /\ \A i \in 1 .. Len(search_results) - 1 :
              search_results[i].score >= search_results[i + 1].score
        /\ Len(search_results) <= max_results
        /\ \A i \in 1 .. Len(search_results) :
              \E k \in 1 .. Len(tavily_response.results) :
                  tavily_response.results[k] = search_results[i]
        /\ tavily_response.outcome = "raises" => search_results = << >>

\* a response in ascending score order with a foreign URL in it and more
\* results of configured domains than asked for
C29_Witness ==
    /\ searches = 1 /\ trigger = "none"
    /\ Len(tavily_response.results) = MaxHits
    /\ Len(search_results) = max_results
    /\ max_results >= 2
    /\ search_results[1].score > search_results[max_results].score
    /\ tavily_response.results[1].score < tavily_response.results[2].score
    /\ \E k \in 1 .. MaxHits :
          ~OfConfiguredDomain(tavily_response.results[k].url)

\* ========================================================================
\* Properties of the interview app (SpecAnswer)
\* ========================================================================

BothSeparators(t) ==
    OccursFrom(t, points_separator, 0) /\ OccursFrom(t, answer_separator, 0)

\* C30: in streamlit_mianshi.py key points and answer are extracted only
\* when both section separators occur in the reply, and a diagram and key
\* points are shown only together with an extracted answer: when either
\* separator is missing nothing is shown, even when a diagram block was
\* extracted.
C30_ShownOnlyWithAnswer ==
    extractor = "mianshi" =>
        /\ extracted.key_points # None \/ extracted.answer # None =>
              /\ BothSeparators(raw_text)
              /\ extracted.key_points # None /\ extracted.answer # None
        /\ displayed # << >> =>
              /\ extracted.answer \notin { None, << >> }
              /\ displayed[1] = "answer"
        /\ ~BothSeparators(raw_text) => displayed = << >>

\* a reply with a diagram block and the key points but without the answer
\* separator: the diagram was extracted and nothing is on the page
C30_Witness ==
    /\ extractor = "mianshi"
    /\ OccursFrom(raw_text, points_separator, 0)
    /\ ~OccursFrom(raw_text, answer_separator, 0)
    /\ extracted.mermaid_code \notin { None, << >> }
    /\ displayed = << >>

====
